---- MODULE Spec2Model ----
(***************************************************************************)
(* Satellite gateway (gateway.py) and resource-limit orchestrator          *)
(* (resource_manager.py).                                                  *)
(*                                                                         *)
(* Text is modelled as a sequence of one-character strings, so that        *)
(* strip / upper / lower / split / startswith / "in" are computed, not     *)
(* assumed.  Str turns such a sequence into a TLA+ string for rendering.   *)
(* The manifest (docker-compose-up.yml) is a sequence of lines; a line is  *)
(* [ind, head, rest]: its leading spaces, its first token and the rest of  *)
(* the line.  Every boundary of the section-removal pattern falls on a     *)
(* line break, so the pattern is computed over lines.  Manifests reachable *)
(* from the baseline hold no blank line.                                   *)
(***************************************************************************)
EXTENDS Integers, Sequences, FiniteSets, TLC

(* ------------------------------ bounds --------------------------------- *)
\* number of command lines / direct calls handled in one behaviour
MaxCmds == 3
\* number of patches applied to the manifest since it was last the baseline
MaxPatches == 2

(* --------------------------- text primitives --------------------------- *)
LowerChars == <<"a","b","c","d","e","f","g","h","i","j","k","l","m","n","o","p","q","r","s","t","u","v","w","x","y","z">>
UpperChars == <<"A","B","C","D","E","F","G","H","I","J","K","L","M","N","O","P","Q","R","S","T","U","V","W","X","Y","Z">>
Digits == <<"0","1","2","3","4","5","6","7","8","9">>

IsSpace(c) == c \in {" ", "\t", "\n", "\r"}

IsLetter(c) == \E i \in 1..26 : LowerChars[i] = c \/ UpperChars[i] = c

UpperChar(c) ==
  IF \E i \in 1..26 : LowerChars[i] = c
  THEN UpperChars[CHOOSE i \in 1..26 : LowerChars[i] = c]
  ELSE c

LowerChar(c) ==
  IF \E i \in 1..26 : UpperChars[i] = c
  THEN LowerChars[CHOOSE i \in 1..26 : UpperChars[i] = c]
  ELSE c

\* str.upper()
Upper(s) == [i \in 1..Len(s) |-> UpperChar(s[i])]

\* str.lower()
Lower(s) == [i \in 1..Len(s) |-> LowerChar(s[i])]

RECURSIVE LStrip(_)
LStrip(s) == IF s # <<>> /\ IsSpace(Head(s)) THEN LStrip(Tail(s)) ELSE s

RECURSIVE RStrip(_)
RStrip(s) ==
  IF s # <<>> /\ IsSpace(s[Len(s)]) THEN RStrip(SubSeq(s, 1, Len(s) - 1)) ELSE s

\* str.strip()
Strip(s) == RStrip(LStrip(s))

\* str.startswith(p)
StartsWith(s, p) == Len(s) >= Len(p) /\ SubSeq(s, 1, Len(p)) = p

\* p in s
Contains(s, p) ==
  \E i \in 0..(Len(s) - Len(p)) : SubSeq(s, i + 1, i + Len(p)) = p

\* index of the first occurrence of character c in s, 0 when absent
IndexOf(s, c) ==
  IF \E i \in 1..Len(s) : s[i] = c
  THEN CHOOSE i \in 1..Len(s) : s[i] = c /\ \A j \in 1..(i - 1) : s[j] # c
  ELSE 0

\* s.split(c, 1)[1] for an s that holds c
AfterFirst(s, c) == SubSeq(s, IndexOf(s, c) + 1, Len(s))

\* s.split(c, 1)[0]
BeforeFirst(s, c) ==
  IF IndexOf(s, c) = 0 THEN s ELSE SubSeq(s, 1, IndexOf(s, c) - 1)

\* s.split(c): always at least one piece
RECURSIVE Split(_, _)
Split(s, c) ==
  IF IndexOf(s, c) = 0 THEN <<s>>
  ELSE <<BeforeFirst(s, c)>> \o Split(AfterFirst(s, c), c)

\* the text as one string
RECURSIVE Str(_)
Str(s) == IF s = <<>> THEN "" ELSE Head(s) \o Str(Tail(s))

(* --------------------------- optional values --------------------------- *)
\* Python None / a str value
None == <<>>
Some(s) == <<s>>

\* truthiness of an optional str: None and "" are false
Truthy(o) == o # None /\ o[1] # <<>>

(* ----------------------------- number text ----------------------------- *)
DigitVal(c) == (CHOOSE i \in 1..10 : Digits[i] = c) - 1

IsDigit(c) == \E i \in 1..10 : Digits[i] = c

AllDigits(s) == \A i \in 1..Len(s) : IsDigit(s[i])

RECURSIVE DigitsVal(_)
DigitsVal(s) ==
  IF s = <<>> THEN 0 ELSE 10 * DigitsVal(SubSeq(s, 1, Len(s) - 1)) + DigitVal(s[Len(s)])

\* float(text) succeeds: plain decimals of at most two fraction digits
\* ("2", "0.5", "1.", ".25"); any other text raises ValueError.  Exponent,
\* sign, inf/nan and underscore forms are outside the modelled inputs.
IsFloat(s) ==
  LET t == Strip(s)
      ip == BeforeFirst(t, ".")
      fp == IF IndexOf(t, ".") = 0 THEN <<>> ELSE AfterFirst(t, ".")
  IN /\ AllDigits(ip) /\ AllDigits(fp)
     /\ Len(ip) + Len(fp) > 0
     /\ Len(fp) <= 2

\* float(text), in thousandths
FloatMilli(s) ==
  LET t == Strip(s)
      ip == BeforeFirst(t, ".")
      fp == IF IndexOf(t, ".") = 0 THEN <<>> ELSE AfterFirst(t, ".")
      f3 == fp \o [i \in 1..(3 - Len(fp)) |-> "0"]
  IN 1000 * DigitsVal(ip) + DigitsVal(f3)

\* str(x) of a non-negative float x given in thousandths: shortest decimal,
\* at least one fraction digit ("1.0", "0.25")
FloatRepr(m) ==
  LET f == m % 1000
      fr == IF f % 100 = 0 THEN ToString(f \div 100)
            ELSE IF f % 10 = 0
                 THEN ToString(f \div 100) \o ToString((f \div 10) % 10)
                 ELSE ToString(f \div 100) \o ToString((f \div 10) % 10) \o ToString(f % 10)
  IN ToString(m \div 1000) \o "." \o fr

(* ------------------------------ manifest ------------------------------- *)
\* the characters of the first token of each kind of manifest line
HeadChars ==
  ("services:" :> <<"s","e","r","v","i","c","e","s",":">>)
  @@ ("satlyt-server:" :> <<"s","a","t","l","y","t","-","s","e","r","v","e","r",":">>)
  @@ ("build:" :> <<"b","u","i","l","d",":">>)
  @@ ("ports:" :> <<"p","o","r","t","s",":">>)
  @@ ("-" :> <<"-">>)
  @@ ("volumes:" :> <<"v","o","l","u","m","e","s",":">>)
  @@ ("container_name:" :> <<"c","o","n","t","a","i","n","e","r","_","n","a","m","e",":">>)
  @@ ("deploy:" :> <<"d","e","p","l","o","y",":">>)
  @@ ("resources:" :> <<"r","e","s","o","u","r","c","e","s",":">>)
  @@ ("limits:" :> <<"l","i","m","i","t","s",":">>)
  @@ ("cpus:" :> <<"c","p","u","s",":">>)
  @@ ("memory:" :> <<"m","e","m","o","r","y",":">>)
  @@ ("reservations:" :> <<"r","e","s","e","r","v","a","t","i","o","n","s",":">>)

DEFAULT_CPU == <<"1",".","0">>
DEFAULT_MEMORY == <<"1","G">>
DEFAULT_RESERVED_MEMORY == <<"5","1","2","M">>

\* one line of the manifest
Line(ind, head, rest) == [ind |-> ind, head |-> head, rest |-> rest]

\* original_content of reset_resource_limits: the baseline manifest
OriginalContent ==
  << Line(0, "services:", ""),
     Line(2, "satlyt-server:", ""),
     Line(4, "build:", " ./satlyt_clean"),
     Line(4, "ports:", ""),
     Line(6, "-", " \"3000:3000\""),
     Line(4, "volumes:", ""),
     Line(6, "-", " ./satlyt_clean/results:/app/results"),
     Line(6, "-", " ./satlyt_clean/errors:/app/errors"),
     Line(4, "container_name:", " satlyt-container") >>

\* cpu_limit or "1.0" / memory_limit or "1G" / memory_limit or "512M"
OrDefault(o, d) == IF Truthy(o) THEN o[1] ELSE d

\* float(cpu_limit or 1.0) raises ValueError
CpuUnparsable(cpu) == Truthy(cpu) /\ ~IsFloat(cpu[1])

\* float(cpu_limit or 1.0) * 0.5, in thousandths
CpuReservationMilli(cpu) ==
  ((IF Truthy(cpu) THEN FloatMilli(cpu[1]) ELSE 1000) * 5) \div 10

\* limits_section of update_compose_file
LimitsSection(cpu, mem) ==
  << Line(4, "deploy:", ""),
     Line(6, "resources:", ""),
     Line(8, "limits:", ""),
     Line(10, "cpus:", " '" \o Str(OrDefault(cpu, DEFAULT_CPU)) \o "'"),
     Line(10, "memory:", " " \o Str(OrDefault(mem, DEFAULT_MEMORY))),
     Line(8, "reservations:", ""),
     Line(10, "cpus:", " '" \o FloatRepr(CpuReservationMilli(cpu)) \o "'"),
     Line(10, "memory:", " " \o Str(OrDefault(mem, DEFAULT_RESERVED_MEMORY))) >>

\* 'deploy:' in content
HasDeploy(content) ==
  \E i \in 1..Len(content) : Contains(HeadChars[content[i].head], HeadChars["deploy:"])

\* \n\s*deploy:  matches at the line break before line i
DeployAt(content, i) == i >= 2 /\ StartsWith(HeadChars[content[i].head], HeadChars["deploy:"])

\* the lookahead (?=\n\s*[a-zA-Z]|\n\s*$|\Z) holds at the end of line k
SectionEndAt(content, k) ==
  \/ k = Len(content)
  \/ IsLetter(HeadChars[content[k + 1].head][1])

\* last line of the lazy match  deploy:.*?  that starts in line i
MatchEnd(content, i) ==
  CHOOSE k \in i..Len(content) :
    /\ SectionEndAt(content, k)
    /\ \A j \in i..(k - 1) : ~SectionEndAt(content, j)

\* re.sub(pattern, '', content, flags=re.DOTALL), scanning from line i
RECURSIVE RemoveDeployFrom(_, _)
RemoveDeployFrom(content, i) ==
  IF i > Len(content) THEN content
  ELSE IF DeployAt(content, i)
       THEN RemoveDeployFrom(
              SubSeq(content, 1, i - 1)
                \o SubSeq(content, MatchEnd(content, i) + 1, Len(content)), i)
       ELSE RemoveDeployFrom(content, i + 1)

RemoveDeploy(content) == RemoveDeployFrom(content, 1)

\* the line holds 'container_name: satlyt-container'
IsIdentityLine(l) == l.head = "container_name:" /\ l.rest = " satlyt-container"

\* content.replace('container_name: satlyt-container', that + "\n" + section)
RECURSIVE InsertSection(_, _)
InsertSection(content, section) ==
  IF content = <<>> THEN <<>>
  ELSE IF IsIdentityLine(Head(content))
       THEN <<Head(content)>> \o section \o InsertSection(Tail(content), section)
       ELSE <<Head(content)>> \o InsertSection(Tail(content), section)

\* the content update_compose_file writes, for a cpu value float() accepts
UpdatedContent(content, cpu, mem) ==
  InsertSection(IF HasDeploy(content) THEN RemoveDeploy(content) ELSE content,
                LimitsSection(cpu, mem))

(* ------------------------- runtime tool outcomes ----------------------- *)
\* subprocess.run raised instead of returning a CompletedProcess
RAISED == -1
\* the step has not run in the current orchestration
NOT_RUN == -2

\* outcomes of one runtime tool invocation: exit status 0 / 1, or RAISED
ToolRcs == {0, 1, RAISED}

\* stderr text of a tool that exits non-zero
ToolDiagnostic == "Cannot connect to the Docker daemon\n"

\* str(e) of an exception raised by subprocess.run
ExceptionText == "[Errno 12] Cannot allocate memory"

\* str(e) of the OSError raised when the manifest cannot be opened for reading
ReadErrorText == "[Errno 13] Permission denied: 'docker-compose-up.yml'"

\* str(e) of the OSError raised when the manifest cannot be opened for writing
WriteErrorText == "[Errno 30] Read-only file system: 'docker-compose-up.yml'"

UP_INDICATOR == <<"U","p">>
StatusUp == <<"U","p"," ","2"," ","s","e","c","o","n","d","s","\n">>
StatusRestarting == <<"R","e","s","t","a","r","t","i","n","g"," ","(","1",")"," ","1"," ","s","e","c","o","n","d"," ","a","g","o","\n">>
StatusBlank == <<"\n">>

\* stdout of  docker ps --filter name=... --format '{{.Status}}'
PsOutputs == {StatusUp, StatusRestarting, StatusBlank, <<>>}

\* docker inspect as read by get_current_limits: exit status, or RAISED for
\* output json.loads / indexing cannot read; HostConfig fields otherwise
InspectOutcomes ==
  { [rc |-> 1, quota |-> 0, period |-> 100000, count |-> 0, mem |-> 0],
    [rc |-> RAISED, quota |-> 0, period |-> 100000, count |-> 0, mem |-> 0],
    [rc |-> 0, quota |-> 0, period |-> 100000, count |-> 0, mem |-> 0],
    [rc |-> 0, quota |-> 50000, period |-> 100000, count |-> 0, mem |-> 536870912],
    [rc |-> 0, quota |-> 0, period |-> 100000, count |-> 2, mem |-> 1073741824] }

(* ------------------------------- state --------------------------------- *)
VARIABLES
  manifest,       \* content of docker-compose-up.yml
  patched,        \* specs patched into the manifest since it was last baseline
  instance,       \* the container as the runtime tools left it
  pc,             \* state of the orchestration in progress, "Idle" when none
  op,             \* "set" / "reset": the orchestration of the current operation
  caller,         \* "gateway" (through the resource_manager.py process) / "direct"
  cpu_limit,      \* arguments of set_resource_limits
  memory_limit,
  trace,          \* orchestration states entered, in order
  outcome,        \* what each external step of the orchestration reported
  result,         \* the dict the orchestration returned
  manifest0,      \* manifest when the current operation started
  raw,            \* the line read from the serial channel
  response,       \* what process_obc_command returned for it
  sent,           \* what was written back to the serial channel for it
  gw_limits,      \* cpu_limit / memory_limit as parsed by the gateway
  proc,           \* CompletedProcess of the resource_manager.py run
  status_data,    \* status_data built by get_container_status
  queries,        \* what the six queries of get_container_status reported
  nCmds,          \* lines read, direct calls and command-line runs made
  alive           \* the run loop of the gateway has not ended

\* The variables from pc to status_data describe the operation being handled
\* (locals of the handler and of the orchestration); they are set afresh
\* when the next line is read or the next direct call is made.

vars == << manifest, patched, instance, pc, op, caller,
           cpu_limit, memory_limit, trace, outcome, result, manifest0, raw,
           response, sent, gw_limits, proc, status_data, queries,
           nCmds, alive >>

store == << manifest, patched >>

orchArgs == << op, caller, cpu_limit, memory_limit, manifest0 >>

gwLocals == << raw, response, sent, gw_limits, proc, status_data, queries >>

NoOutcome ==
  [stop |-> NOT_RUN, read |-> NOT_RUN, write |-> NOT_RUN, rm |-> NOT_RUN,
   start |-> NOT_RUN,
   ps |-> NOT_RUN, psOut |-> <<>>, inspect |-> NOT_RUN]

NoResult ==
  [success |-> FALSE, error |-> "", message |-> "", cur_cpu |-> "",
   cur_memory |-> "", container_status |-> ""]

NoStatusData ==
  [container_name |-> "", status |-> "", cpu_percent |-> "", memory_usage |-> "",
   memory_percent |-> "", network_io |-> "", block_io |-> "", started_at |-> "",
   image |-> "", timestamp |-> ""]

NoProc == [returncode |-> NOT_RUN, stdout |-> "", stderr |-> ""]

\* get_container_status has not run for the line being handled
NoQueries == [raised |-> FALSE, failed |-> {}, info |-> <<"">>]

NoParsed == [cpu |-> None, memory |-> None]

Init ==
  /\ manifest = OriginalContent
  /\ patched = <<>>
  /\ instance \in {"running", "absent"}
  /\ pc = "Idle"
  /\ op = "none"
  /\ caller = "none"
  /\ cpu_limit = None
  /\ memory_limit = None
  /\ trace = <<>>
  /\ outcome = NoOutcome
  /\ result = NoResult
  /\ manifest0 = OriginalContent
  /\ raw = <<>>
  /\ response = None
  /\ sent = <<>>
  /\ gw_limits = NoParsed
  /\ proc = NoProc
  /\ status_data = NoStatusData
  /\ queries = NoQueries
  /\ nCmds = 0
  /\ alive = TRUE

(* ---------------------------- orchestrator ----------------------------- *)
Goto(state) == pc' = state /\ trace' = Append(trace, state)

\* return {"success": False, "message": ..., "error": ...}
Fail(kind, message) ==
  /\ result' = [NoResult EXCEPT !.error = kind, !.message = message]
  /\ Goto("Failed")

\* no orchestration belongs to the operation being handled
NoOrchestration ==
  /\ pc' = "Idle"
  /\ op' = "none"
  /\ caller' = "none"
  /\ cpu_limit' = None
  /\ memory_limit' = None
  /\ trace' = <<>>
  /\ outcome' = NoOutcome
  /\ result' = NoResult
  /\ manifest0' = manifest

\* entry of set_resource_limits / reset_resource_limits
Begin(who, what, cpu, mem) ==
  /\ caller' = who
  /\ op' = what
  /\ cpu_limit' = cpu
  /\ memory_limit' = mem
  /\ pc' = "Stopping"
  /\ trace' = <<"Stopping">>
  /\ outcome' = NoOutcome
  /\ result' = NoResult
  /\ manifest0' = manifest
  /\ UNCHANGED << store, instance >>

\* the non-zero exit status of the stop step goes unnoticed
StopFailedNever(rc) == FALSE

\* stop_result.returncode != 0
StopFailed(rc) == rc # 0

\* Step 1: docker-compose down
Stop(rc) ==
  /\ pc = "Stopping" /\ op = "set"
  /\ outcome' = [outcome EXCEPT !.stop = rc]
  /\ IF rc = RAISED
     THEN /\ Fail("EXCEPTION", "Error setting resource limits: " \o ExceptionText)
          /\ UNCHANGED instance
     ELSE IF StopFailed(rc)
     THEN /\ Fail("STOP_CONTAINER_FAILED", "Failed to stop container: " \o ToolDiagnostic)
          /\ UNCHANGED instance
     ELSE /\ instance' = "absent"
          /\ Goto("PatchingManifest")
          /\ UNCHANGED result
  /\ UNCHANGED << store, orchArgs, gwLocals, nCmds, alive >>

\* the manifest is opened for writing, and so emptied, before the new
\* content is computed
PatchManifestTruncates(readOk, writeOk) ==
  /\ pc = "PatchingManifest" /\ op = "set"
  /\ IF ~readOk
     THEN /\ outcome' = [outcome EXCEPT !.read = RAISED]
          /\ Fail("FILE_UPDATE_FAILED", "Error updating compose file: " \o ReadErrorText)
          /\ UNCHANGED store
     ELSE IF CpuUnparsable(cpu_limit)
     THEN /\ outcome' = [outcome EXCEPT !.read = 0]
          /\ Fail("FILE_UPDATE_FAILED",
                  "Error updating compose file: could not convert string to float: '"
                    \o Str(cpu_limit[1]) \o "'")
          /\ manifest' = <<>>
          /\ UNCHANGED patched
     ELSE IF ~writeOk
     THEN /\ outcome' = [outcome EXCEPT !.read = 0, !.write = RAISED]
          /\ Fail("FILE_UPDATE_FAILED", "Error updating compose file: " \o WriteErrorText)
          /\ UNCHANGED store
     ELSE /\ outcome' = [outcome EXCEPT !.read = 0, !.write = 0]
          /\ manifest' = UpdatedContent(manifest, cpu_limit, memory_limit)
          /\ patched' = Append(patched, <<cpu_limit, memory_limit>>)
          /\ Goto("RemovingStale")
          /\ UNCHANGED result
  /\ UNCHANGED << instance, orchArgs, gwLocals, nCmds, alive >>

\* Step 2: update_compose_file; readOk / writeOk: opening the manifest for
\* reading / for writing did not raise
PatchManifest(readOk, writeOk) ==
  /\ pc = "PatchingManifest" /\ op = "set"
  /\ IF ~readOk
     THEN /\ outcome' = [outcome EXCEPT !.read = RAISED]
          /\ Fail("FILE_UPDATE_FAILED", "Error updating compose file: " \o ReadErrorText)
          /\ UNCHANGED store
     ELSE IF CpuUnparsable(cpu_limit)
     THEN /\ outcome' = [outcome EXCEPT !.read = 0]
          /\ Fail("FILE_UPDATE_FAILED",
                  "Error updating compose file: could not convert string to float: '"
                    \o Str(cpu_limit[1]) \o "'")
          /\ UNCHANGED store
     ELSE IF ~writeOk
     THEN /\ outcome' = [outcome EXCEPT !.read = 0, !.write = RAISED]
          /\ Fail("FILE_UPDATE_FAILED", "Error updating compose file: " \o WriteErrorText)
          /\ UNCHANGED store
     ELSE /\ outcome' = [outcome EXCEPT !.read = 0, !.write = 0]
          /\ manifest' = UpdatedContent(manifest, cpu_limit, memory_limit)
          /\ patched' = Append(patched, <<cpu_limit, memory_limit>>)
          /\ Goto("RemovingStale")
          /\ UNCHANGED result
  /\ UNCHANGED << instance, orchArgs, gwLocals, nCmds, alive >>

\* Step 3: docker rm; the exit status is not looked at
RemoveStale(rc) ==
  /\ pc = "RemovingStale" /\ op = "set"
  /\ outcome' = [outcome EXCEPT !.rm = rc]
  /\ IF rc = RAISED
     THEN /\ Fail("EXCEPTION", "Error setting resource limits: " \o ExceptionText)
          /\ UNCHANGED instance
     ELSE /\ instance' = IF rc = 0 THEN "absent" ELSE instance
          /\ Goto("Recreating")
          /\ UNCHANGED result
  /\ UNCHANGED << store, orchArgs, gwLocals, nCmds, alive >>

\* the non-zero exit status of the start step goes unnoticed
StartFailedNever(rc) == FALSE

\* start_result.returncode != 0
StartFailed(rc) == rc # 0

\* Step 4: docker-compose up -d --force-recreate
Recreate(rc) ==
  /\ pc = "Recreating" /\ op = "set"
  /\ outcome' = [outcome EXCEPT !.start = rc]
  /\ IF rc = RAISED
     THEN /\ Fail("EXCEPTION", "Error setting resource limits: " \o ExceptionText)
          /\ UNCHANGED instance
     ELSE IF StartFailed(rc)
     THEN /\ Fail("START_CONTAINER_FAILED", "Failed to start container: " \o ToolDiagnostic)
          /\ UNCHANGED instance
     ELSE /\ instance' = "running"
          /\ Goto("Verifying")
          /\ UNCHANGED result
  /\ UNCHANGED << store, orchArgs, gwLocals, nCmds, alive >>

\* the status is compared with the indicator instead of searched for it
IsUpExact(status) == status = UP_INDICATOR

\* "Up" in status
IsUp(status) == Contains(status, UP_INDICATOR)

\* verify_container_status, called as the verification step
Verify(rc, out) ==
  /\ pc = "Verifying" /\ op = "set"
  /\ outcome' = [outcome EXCEPT !.ps = rc, !.psOut = out]
  /\ IF rc = RAISED
     THEN Fail("VERIFICATION_FAILED", "Error verifying container: " \o ExceptionText)
     ELSE IF rc # 0 \/ Strip(out) = <<>>
     THEN Fail("CONTAINER_NOT_RUNNING", "Container is not running")
     ELSE IF ~IsUp(Strip(out))
     THEN Fail("CONTAINER_NOT_HEALTHY", "Container status: " \o Str(Strip(out)))
     ELSE /\ result' = [result EXCEPT !.container_status = Str(Strip(out))]
          /\ Goto("ReadingBack")
  /\ UNCHANGED << store, instance, orchArgs, gwLocals, nCmds, alive >>

\* f"{n / d:.1f}" for the exact tenths the modelled inputs give
Fixed1(n, d) ==
  LET t == (n * 10 + d \div 2) \div d
  IN ToString(t \div 10) \o "." \o ToString(t % 10)

\* cpu of get_current_limits
CurrentCpu(insp) ==
  IF insp.rc # 0 THEN "unknown"
  ELSE IF insp.quota > 0 THEN Fixed1(insp.quota, insp.period)
  ELSE IF insp.count > 0 THEN ToString(insp.count)
  ELSE "unlimited"

\* memory of get_current_limits; byte counts are scaled in KiB units
CurrentMemory(insp) ==
  IF insp.rc # 0 THEN "unknown"
  ELSE IF insp.mem <= 0 THEN "unlimited"
  ELSE IF insp.mem >= 1073741824 THEN Fixed1(insp.mem \div 1024, 1048576) \o "G"
  ELSE IF insp.mem >= 1048576 THEN ToString((insp.mem + 524288) \div 1048576) \o "M"
  ELSE ToString(insp.mem) \o "B"

\* Steps 5-6 and the success return: settle, get_current_limits, result
ReadBack(insp) ==
  /\ pc = "ReadingBack" /\ op = "set"
  /\ outcome' = [outcome EXCEPT !.inspect = insp.rc]
  /\ result' = [result EXCEPT !.success = TRUE,
                              !.message = "Resource limits applied successfully",
                              !.cur_cpu = CurrentCpu(insp),
                              !.cur_memory = CurrentMemory(insp)]
  /\ Goto("Done")
  /\ UNCHANGED << store, instance, orchArgs, gwLocals, nCmds, alive >>

\* reset_resource_limits: docker-compose down; the exit status is not looked at
ResetStop(rc) ==
  /\ pc = "Stopping" /\ op = "reset"
  /\ outcome' = [outcome EXCEPT !.stop = rc]
  /\ IF rc = RAISED
     THEN /\ Fail("EXCEPTION", "Error resetting limits: " \o ExceptionText)
          /\ UNCHANGED instance
     ELSE /\ instance' = IF rc = 0 THEN "absent" ELSE instance
          /\ Goto("ResettingManifest")
          /\ UNCHANGED result
  /\ UNCHANGED << store, orchArgs, gwLocals, nCmds, alive >>

\* the manifest is written back as it was read
ResetContentKept(content) == content

\* the content reset_resource_limits writes over the manifest
ResetContent(content) == OriginalContent

\* reset_resource_limits: overwrite the manifest with original_content;
\* writeOk: opening the manifest for writing did not raise
ResetWrite(writeOk) ==
  /\ pc = "ResettingManifest" /\ op = "reset"
  /\ IF ~writeOk
     THEN /\ outcome' = [outcome EXCEPT !.write = RAISED]
          /\ Fail("EXCEPTION", "Error resetting limits: " \o WriteErrorText)
          /\ UNCHANGED store
     ELSE /\ outcome' = [outcome EXCEPT !.write = 0]
          /\ manifest' = ResetContent(manifest)
          /\ patched' = <<>>
          /\ Goto("Recreating")
          /\ UNCHANGED result
  /\ UNCHANGED << instance, orchArgs, gwLocals, nCmds, alive >>

\* reset_resource_limits: docker-compose up -d
ResetStart(rc) ==
  /\ pc = "Recreating" /\ op = "reset"
  /\ outcome' = [outcome EXCEPT !.start = rc]
  /\ IF rc = RAISED
     THEN /\ Fail("EXCEPTION", "Error resetting limits: " \o ExceptionText)
          /\ UNCHANGED instance
     ELSE IF StartFailed(rc)
     THEN /\ Fail("START_CONTAINER_FAILED", "Failed to start container: " \o ToolDiagnostic)
          /\ UNCHANGED instance
     ELSE /\ instance' = "running"
          /\ result' = [result EXCEPT !.success = TRUE,
                          !.message = "Resource limits reset to default (unlimited)",
                          !.cur_cpu = "unlimited", !.cur_memory = "unlimited"]
          /\ Goto("Done")
  /\ UNCHANGED << store, orchArgs, gwLocals, nCmds, alive >>

(* ------------------------------- gateway ------------------------------- *)
LOG_MARKER == <<"[","L","O","G","]">>
CMD_START_CONTAINER == <<"S","T","A","R","T","_","C","O","N","T","A","I","N","E","R">>
CMD_STOP_CONTAINER == <<"S","T","O","P","_","C","O","N","T","A","I","N","E","R">>
CMD_GET_CONTAINER_STATUS == <<"G","E","T","_","C","O","N","T","A","I","N","E","R","_","S","T","A","T","U","S">>
CMD_RUN_PAYLOAD == <<"R","U","N","_","P","A","Y","L","O","A","D">>
CMD_GET_STATUS == <<"G","E","T","_","S","T","A","T","U","S">>
CMD_GET_FILES == <<"G","E","T","_","F","I","L","E","S">>
CMD_SHUTDOWN == <<"S","H","U","T","D","O","W","N">>
CMD_PING == <<"P","I","N","G">>
PFX_SET_RESOURCE_LIMITS == <<"S","E","T","_","R","E","S","O","U","R","C","E","_","L","I","M","I","T","S",":">>
CMD_RESET_RESOURCE_LIMITS == <<"R","E","S","E","T","_","R","E","S","O","U","R","C","E","_","L","I","M","I","T","S">>
PFX_TEXT_PROMPT == <<"T","E","X","T","_","P","R","O","M","P","T",":">>
KEY_CPU == <<"c","p","u">>
KEY_MEMORY == <<"m","e","m","o","r","y">>

\* lines the command source sends (without the line terminator)
LineSetBoth == <<"S","E","T","_","R","E","S","O","U","R","C","E","_","L","I","M","I","T","S",":","c","p","u","=","0",".","5",",","m","e","m","o","r","y","=","5","1","2","M">>
LineSetCpuOnly == <<"s","e","t","_","r","e","s","o","u","r","c","e","_","l","i","m","i","t","s",":","c","p","u","=","2">>
LineSetMemOnly == <<"S","E","T","_","R","E","S","O","U","R","C","E","_","L","I","M","I","T","S",":"," ","m","e","m","o","r","y"," ","="," ","2","g">>
LineSetBadCpu == <<"S","E","T","_","R","E","S","O","U","R","C","E","_","L","I","M","I","T","S",":","c","p","u","=","a","b","c">>
LineSetNoPayload == <<"S","E","T","_","R","E","S","O","U","R","C","E","_","L","I","M","I","T","S",":">>
LineSetEmptyValue == <<"S","E","T","_","R","E","S","O","U","R","C","E","_","L","I","M","I","T","S",":","c","p","u","=",",","m","e","m","o","r","y","=">>
LineSetUnknownKey == <<"S","E","T","_","R","E","S","O","U","R","C","E","_","L","I","M","I","T","S",":","d","i","s","k","=","5",",","c","p","u">>
LineReset == <<"r","e","s","e","t","_","r","e","s","o","u","r","c","e","_","l","i","m","i","t","s">>
LineTextHello == <<"T","E","X","T","_","P","R","O","M","P","T",":","h","e","l","l","o">>
LineTextUpper == <<"T","E","X","T","_","P","R","O","M","P","T",":","H","I"," ","2">>
LinePing == <<" ","p","i","n","g"," ">>
LineStart == <<"S","T","A","R","T","_","C","O","N","T","A","I","N","E","R">>
LineStop == <<"s","t","o","p","_","c","o","n","t","a","i","n","e","r">>
LineStatus == <<"G","E","T","_","C","O","N","T","A","I","N","E","R","_","S","T","A","T","U","S">>
LineRun == <<"R","U","N","_","P","A","Y","L","O","A","D">>
LineGetStatus == <<"G","E","T","_","S","T","A","T","U","S">>
LineGetFiles == <<"G","E","T","_","F","I","L","E","S">>
LineShutdown == <<"S","h","u","t","d","o","w","n">>
LineLog == <<"[","L","O","G","]"," ","b","o","o","t"," ","o","k">>
LineLogPing == <<"[","l","o","g","]","P","I","N","G">>
LineUnknownLower == <<"f","o","o">>
LineUnknownUpper == <<"R","E","B","O","O","T">>
LineUnknownPrefix == <<"P","I","N","G",":","1">>
LineBlank == <<" "," ">>

Lines ==
  { LineSetBoth, LineSetCpuOnly, LineSetMemOnly, LineSetBadCpu,
    LineSetNoPayload, LineSetEmptyValue, LineSetUnknownKey, LineReset,
    LineTextHello, LineTextUpper, LinePing, LineStart, LineStop, LineStatus,
    LineRun, LineGetStatus, LineGetFiles, LineShutdown, LineLog, LineLogPing,
    LineUnknownLower, LineUnknownUpper, LineUnknownPrefix, LineBlank }

\* run: raw_command = readline().decode().strip()
RawCommand(line) == Strip(line)

\* process_obc_command: command = command.strip().upper()
Normalize(rawCommand) == Upper(Strip(rawCommand))

\* the if / elif chain of process_obc_command
Route(command) ==
  IF StartsWith(command, LOG_MARKER) THEN "log"
  ELSE IF command = CMD_START_CONTAINER THEN "start_container"
  ELSE IF command = CMD_STOP_CONTAINER THEN "stop_container"
  ELSE IF command = CMD_GET_CONTAINER_STATUS THEN "get_container_status"
  ELSE IF command = CMD_RUN_PAYLOAD THEN "call_run_model"
  ELSE IF command = CMD_GET_STATUS THEN "call_execution_status"
  ELSE IF command = CMD_GET_FILES THEN "call_get_file_number"
  ELSE IF command = CMD_SHUTDOWN THEN "call_shutdown"
  ELSE IF command = CMD_PING THEN "ping"
  ELSE IF StartsWith(command, PFX_SET_RESOURCE_LIMITS) THEN "set_resource_limits"
  ELSE IF command = CMD_RESET_RESOURCE_LIMITS THEN "reset_resource_limits"
  ELSE IF StartsWith(command, PFX_TEXT_PROMPT) THEN "handle_text_prompt"
  ELSE "unknown"

\* per line: the command process_obc_command works on and the branch it
\* takes; "blank" is run skipping a line that is empty once stripped
Dispatch ==
  [line \in Lines |->
     [command |-> Normalize(RawCommand(line)),
      route |-> IF RawCommand(line) = <<>> THEN "blank"
                ELSE Route(Normalize(RawCommand(line)))]]

Routes ==
  {"blank", "log", "start_container", "stop_container", "get_container_status",
   "call_run_model", "call_execution_status", "call_get_file_number",
   "call_shutdown", "ping", "set_resource_limits", "reset_resource_limits",
   "handle_text_prompt", "unknown"}

\* the lines that take branch h
LinesFor == [h \in Routes |-> {line \in Lines : Dispatch[line].route = h}]

\* a line is read while the previous one is still being processed
ReadsWhileBusy(line, h) ==
  /\ alive /\ nCmds < MaxCmds
  /\ Dispatch[line].route = h
  /\ raw' = line
  /\ nCmds' = nCmds + 1
  /\ UNCHANGED alive

\* run reads a line that is handled by branch h
Reads(line, h) ==
  /\ alive /\ pc = "Idle" /\ nCmds < MaxCmds
  /\ Dispatch[line].route = h
  /\ raw' = line
  /\ nCmds' = nCmds + 1
  /\ UNCHANGED alive

\* run: if response: self.send_to_obc(response)
Respond(r) ==
  /\ response' = r
  /\ sent' = IF r # None /\ r[1] # "" THEN r ELSE <<>>

\* the handler writes the baseline manifest back itself
HandleResets(line, h, r) ==
  /\ Reads(line, h)
  /\ Respond(r)
  /\ NoOrchestration
  /\ gw_limits' = NoParsed
  /\ proc' = NoProc
  /\ manifest' = OriginalContent
  /\ patched' = <<>>

\* one pass of the run loop for a line whose handler starts no orchestration
\* and leaves the manifest alone: it answers r
Handle(line, h, r) ==
  /\ Reads(line, h)
  /\ Respond(r)
  /\ NoOrchestration
  /\ gw_limits' = NoParsed
  /\ proc' = NoProc
  /\ UNCHANGED store

\* run: a line that is empty once stripped is skipped
GwBlank(line) ==
  /\ Handle(line, "blank", None)
  /\ status_data' = NoStatusData /\ queries' = NoQueries
  /\ UNCHANGED instance

\* a log line is answered like an unrecognized command
GwLogAnswered(line) ==
  /\ Handle(line, "log", Some("UNKNOWN_CMD:" \o Str(Dispatch[line].command)))
  /\ status_data' = NoStatusData /\ queries' = NoQueries
  /\ UNCHANGED instance

\* process_obc_command: log lines are ignored
GwLog(line) ==
  /\ Handle(line, "log", None)
  /\ status_data' = NoStatusData /\ queries' = NoQueries
  /\ UNCHANGED instance

\* an exception raised by subprocess.run leaves start_container and is
\* caught by run, which answers nothing
GwStartContainerUncaught(line, rc) ==
  /\ Handle(line, "start_container",
            IF rc = RAISED THEN None
            ELSE Some(IF rc = 0 THEN "CONTAINER_STARTED" ELSE "CONTAINER_ERROR"))
  /\ instance' = IF rc = 0 THEN "running" ELSE instance
  /\ status_data' = NoStatusData /\ queries' = NoQueries

\* start_container
GwStartContainer(line, rc) ==
  /\ Handle(line, "start_container",
            Some(IF rc = 0 THEN "CONTAINER_STARTED" ELSE "CONTAINER_ERROR"))
  /\ instance' = IF rc = 0 THEN "running" ELSE instance
  /\ status_data' = NoStatusData /\ queries' = NoQueries

\* stop_container
GwStopContainer(line, rc) ==
  /\ Handle(line, "stop_container",
            Some(IF rc = 0 THEN "CONTAINER_STOPPED" ELSE "CONTAINER_ERROR"))
  /\ instance' = IF rc = 0 THEN "absent" ELSE instance
  /\ status_data' = NoStatusData /\ queries' = NoQueries

\* the five docker stats queries of get_container_status
MetricNames == {"cpu_percent", "memory_usage", "memory_percent", "network_io", "block_io"}

\* stdout of a docker stats query that exits 0
MetricOutput(m) ==
  CASE m = "cpu_percent" -> <<"0",".","5","0","%","\n">>
    [] m = "memory_usage" -> <<"1","0","M","i","B"," ","/"," ","1","G","i","B","\n">>
    [] m = "memory_percent" -> <<"1",".","0","0","%","\n">>
    [] m = "network_io" -> <<"1","k","B"," ","/"," ","2","k","B","\n">>
    [] m = "block_io" -> <<"0","B"," ","/"," ","0","B","\n">>

InfoRunning == <<"r","u","n","n","i","n","g","\t","2","0","2","5","-","0","1","-","0","1","T","0","0",":","0","0",":","0","0","Z","\t","s","a","t","l","y","t","-","s","e","r","v","e","r","\n">>

\* the output of a query is used whatever its exit status
MetricFieldUnchecked(m, failed) == Str(Strip(MetricOutput(m)))

\* x.stdout.strip() if x.returncode == 0 else "N/A"
MetricField(m, failed) == IF m \in failed THEN "N/A" ELSE Str(Strip(MetricOutput(m)))

\* info_parts[i] if len(info_parts) > i else default   (i counted from 0)
InfoField(info, i, default) ==
  LET parts == Split(Strip(info), "\t")
  IN IF Len(parts) > i THEN Str(parts[i + 1]) ELSE default

\* status_data of get_container_status
StatusData(failed, info) ==
  [container_name |-> "satlyt-container",
   status |-> InfoField(info, 0, "unknown"),
   cpu_percent |-> MetricField("cpu_percent", failed),
   memory_usage |-> MetricField("memory_usage", failed),
   memory_percent |-> MetricField("memory_percent", failed),
   network_io |-> MetricField("network_io", failed),
   block_io |-> MetricField("block_io", failed),
   started_at |-> InfoField(info, 1, "N/A"),
   image |-> InfoField(info, 2, "N/A"),
   timestamp |-> "<now>"]

\* json.dumps(status_data)
JsonDumps(d) ==
  "{\"container_name\": \"" \o d.container_name
    \o "\", \"status\": \"" \o d.status
    \o "\", \"cpu_percent\": \"" \o d.cpu_percent
    \o "\", \"memory_usage\": \"" \o d.memory_usage
    \o "\", \"memory_percent\": \"" \o d.memory_percent
    \o "\", \"network_io\": \"" \o d.network_io
    \o "\", \"block_io\": \"" \o d.block_io
    \o "\", \"started_at\": \"" \o d.started_at
    \o "\", \"image\": \"" \o d.image
    \o "\", \"timestamp\": \"" \o d.timestamp \o "\"}"

\* what the six queries of get_container_status can report: a
\* subprocess.run call raised; or the container exists, the stats queries in
\* failed exit non-zero and the inspect query prints info; or there is no
\* such container, every stats query exits non-zero and inspect prints nothing
ProbeOutcomes ==
  {[raised |-> TRUE, failed |-> {}, info |-> <<>>]}
    \cup {[raised |-> FALSE, failed |-> f, info |-> InfoRunning] :
            f \in SUBSET MetricNames}
    \cup {[raised |-> FALSE, failed |-> MetricNames, info |-> <<>>]}

\* get_container_status, per outcome of its queries: the status_data it
\* builds and the string it returns
ContainerStatus ==
  [probe \in ProbeOutcomes |->
     IF probe.raised
     THEN [data |-> NoStatusData,
           response |-> "CONTAINER_ERROR:" \o ExceptionText]
     ELSE [data |-> StatusData(probe.failed, probe.info),
           response |-> "CONTAINER_STATUS:"
                          \o JsonDumps(StatusData(probe.failed, probe.info))]]

\* GET_CONTAINER_STATUS
GwGetContainerStatus(line, probe) ==
  /\ Handle(line, "get_container_status", Some(ContainerStatus[probe].response))
  /\ status_data' = ContainerStatus[probe].data
  /\ queries' = probe
  /\ UNCHANGED instance

\* what call_api returns: None (non-200 or exception), an empty JSON
\* object, an object with the field the caller reads, or one without it
ApiReplies == {"none", "empty", "full", "partial"}

\* if result:
ApiTruthy(reply) == reply \in {"full", "partial"}

\* call_run_model
GwRunModel(line, reply) ==
  /\ Handle(line, "call_run_model",
            Some(IF ApiTruthy(reply) THEN "MODEL_STARTED" ELSE "API_ERROR"))
  /\ status_data' = NoStatusData /\ queries' = NoQueries
  /\ UNCHANGED instance

\* call_execution_status
GwExecutionStatus(line, reply) ==
  /\ Handle(line, "call_execution_status",
            Some(IF ~ApiTruthy(reply) THEN "API_ERROR"
                 ELSE IF reply = "full" THEN "STATUS:" \o "idle"
                 ELSE "CONNECTION_ERROR"))
  /\ status_data' = NoStatusData /\ queries' = NoQueries
  /\ UNCHANGED instance

\* call_get_file_number
GwGetFileNumber(line, reply) ==
  /\ Handle(line, "call_get_file_number",
            Some(IF ~ApiTruthy(reply) THEN "API_ERROR"
                 ELSE IF reply = "full" THEN "FILES:" \o ToString(3)
                 ELSE "CONNECTION_ERROR"))
  /\ status_data' = NoStatusData /\ queries' = NoQueries
  /\ UNCHANGED instance

\* call_shutdown
GwShutdown(line, reply) ==
  /\ Handle(line, "call_shutdown",
            Some(IF ApiTruthy(reply) THEN "SHUTDOWN_ACK" ELSE "SHUTDOWN_ERROR"))
  /\ status_data' = NoStatusData /\ queries' = NoQueries
  /\ UNCHANGED instance

\* PING
GwPing(line) ==
  /\ Handle(line, "ping", Some("PONG"))
  /\ status_data' = NoStatusData /\ queries' = NoQueries
  /\ UNCHANGED instance

\* handle_text_prompt: text_content = command.split(":", 1)[1]
TextPromptResponse(command) == Str(AfterFirst(command, ":")) \o " OK"

GwTextPrompt(line) ==
  /\ Handle(line, "handle_text_prompt",
            Some(TextPromptResponse(Dispatch[line].command)))
  /\ status_data' = NoStatusData /\ queries' = NoQueries
  /\ UNCHANGED instance

\* the else branch of process_obc_command
UnknownResponse(command) == "UNKNOWN_CMD:" \o Str(command)

GwUnknown(line) ==
  /\ Handle(line, "unknown", Some(UnknownResponse(Dispatch[line].command)))
  /\ status_data' = NoStatusData /\ queries' = NoQueries
  /\ UNCHANGED instance

\* the loop over limits_pairs in set_resource_limits
RECURSIVE ParsePairs(_, _)
ParsePairs(pairs, acc) ==
  IF pairs = <<>> THEN acc
  ELSE LET pair == Head(pairs)
           hasEq == IndexOf(pair, "=") # 0
           key == Lower(Strip(BeforeFirst(pair, "=")))
           value == Strip(AfterFirst(pair, "="))
       IN ParsePairs(Tail(pairs),
            IF hasEq /\ key = KEY_CPU THEN [acc EXCEPT !.cpu = Some(value)]
            ELSE IF hasEq /\ key = KEY_MEMORY THEN [acc EXCEPT !.memory = Some(value)]
            ELSE acc)

\* cpu_limit, memory_limit parsed from SET_RESOURCE_LIMITS:<payload>
ParseLimits(command) ==
  ParsePairs(Split(AfterFirst(command, ":"), ","), [cpu |-> None, memory |-> None])

\* the values are tested against None, so an empty value counts as given
NoLimitsNone(l) == l.cpu = None /\ l.memory = None

\* not cpu_limit and not memory_limit
NoLimits(l) == ~Truthy(l.cpu) /\ ~Truthy(l.memory)

\* f"{x}" of an optional str
Fmt(o) == IF o = None THEN "None" ELSE Str(o[1])

\* str(e) when the resource_manager.py process cannot be started
SpawnErrorText == "[Errno 2] No such file or directory: 'python3'"

\* a set orchestration may start: the patch count is within the bound
MayPatch == Len(patched) < MaxPatches

\* per SET_RESOURCE_LIMITS: line, the limits set_resource_limits parses from it
LimitsOf ==
  [line \in LinesFor["set_resource_limits"] |-> ParseLimits(Dispatch[line].command)]

\* gateway set_resource_limits up to the subprocess.run call;
\* spawned: the resource_manager.py process could be started
GwSetResourceLimits(line, spawned) ==
  /\ Reads(line, "set_resource_limits")
  /\ gw_limits' = LimitsOf[line]
  /\ status_data' = NoStatusData /\ queries' = NoQueries
  /\ proc' = NoProc
  /\ IF NoLimits(gw_limits')
     THEN /\ Respond(Some("RESOURCE_LIMITS_ERROR:No limits specified"))
          /\ NoOrchestration
          /\ UNCHANGED << store, instance >>
     ELSE IF ~spawned
     THEN /\ Respond(Some("RESOURCE_LIMITS_ERROR:" \o SpawnErrorText))
          /\ NoOrchestration
          /\ UNCHANGED << store, instance >>
     ELSE /\ MayPatch
          /\ Begin("gateway", "set",
                   Some(OrDefault(gw_limits'.cpu, DEFAULT_CPU)),
                   Some(OrDefault(gw_limits'.memory, DEFAULT_MEMORY)))
          /\ response' = None
          /\ sent' = <<>>

\* gateway reset_resource_limits up to the subprocess.run call
GwResetResourceLimits(line, spawned) ==
  /\ Reads(line, "reset_resource_limits")
  /\ gw_limits' = NoParsed
  /\ status_data' = NoStatusData /\ queries' = NoQueries
  /\ proc' = NoProc
  /\ IF ~spawned
     THEN /\ Respond(Some("RESOURCE_LIMITS_ERROR:" \o SpawnErrorText))
          /\ NoOrchestration
          /\ UNCHANGED << store, instance >>
     ELSE /\ Begin("gateway", "reset", None, None)
          /\ response' = None
          /\ sent' = <<>>

\* main prints the failure message and returns without sys.exit(1)
MainSetExitsZero(res, cpu, mem) ==
  IF res.success
  THEN [returncode |-> 0,
        stdout |-> " " \o res.message \o "\n"
                   \o " Applied limits: CPU=" \o Fmt(cpu) \o ", Memory=" \o Fmt(mem) \o "\n"
                   \o " Current limits: CPU=" \o res.cur_cpu \o ", Memory=" \o res.cur_memory \o "\n",
        stderr |-> ""]
  ELSE [returncode |-> 0, stdout |-> " " \o res.message \o "\n", stderr |-> ""]

\* main, command "set": what the process leaves to its parent
MainSet(res, cpu, mem) ==
  IF res.success
  THEN [returncode |-> 0,
        stdout |-> " " \o res.message \o "\n"
                   \o " Applied limits: CPU=" \o Fmt(cpu) \o ", Memory=" \o Fmt(mem) \o "\n"
                   \o " Current limits: CPU=" \o res.cur_cpu \o ", Memory=" \o res.cur_memory \o "\n",
        stderr |-> ""]
  ELSE [returncode |-> 1, stdout |-> " " \o res.message \o "\n", stderr |-> ""]

\* main, command "reset"
MainReset(res) ==
  IF res.success
  THEN [returncode |-> 0, stdout |-> " " \o res.message \o "\n", stderr |-> ""]
  ELSE [returncode |-> 1, stdout |-> res.message \o "\n", stderr |-> ""]

\* gateway set_resource_limits after subprocess.run
SetResponse(p, l) ==
  IF p.returncode = 0
  THEN "RESOURCE_LIMITS_SET:CPU=" \o Fmt(l.cpu) \o ",Memory=" \o Fmt(l.memory)
  ELSE "RESOURCE_LIMITS_ERROR:" \o p.stderr

\* gateway reset_resource_limits after subprocess.run
ResetResponse(p) ==
  IF p.returncode = 0 THEN "RESOURCE_LIMITS_RESET"
  ELSE "RESOURCE_LIMITS_ERROR:" \o p.stderr

\* the resource_manager.py set process exits and the gateway answers
GwSetReturn ==
  /\ pc \in {"Done", "Failed"} /\ caller = "gateway" /\ op = "set"
  /\ proc' = MainSet(result, cpu_limit, memory_limit)
  /\ Respond(Some(SetResponse(proc', gw_limits)))
  /\ pc' = "Idle"
  /\ UNCHANGED << store, instance, orchArgs, trace, outcome, result, raw,
                  gw_limits, status_data, queries, nCmds, alive >>

\* the resource_manager.py reset process exits and the gateway answers
GwResetReturn ==
  /\ pc \in {"Done", "Failed"} /\ caller = "gateway" /\ op = "reset"
  /\ proc' = MainReset(result)
  /\ Respond(Some(ResetResponse(proc')))
  /\ pc' = "Idle"
  /\ UNCHANGED << store, instance, orchArgs, trace, outcome, result, raw,
                  gw_limits, status_data, queries, nCmds, alive >>

\* run: self.ser.in_waiting raises; the access is outside the inner try, the
\* exception leaves run and the loop ends, its locals with it
PollFails ==
  /\ alive /\ pc = "Idle"
  /\ alive' = FALSE
  /\ raw' = <<>>
  /\ Respond(None)
  /\ NoOrchestration
  /\ gw_limits' = NoParsed
  /\ proc' = NoProc
  /\ status_data' = NoStatusData /\ queries' = NoQueries
  /\ UNCHANGED << store, instance, nCmds >>

\* run: self.ser.readline() raises; the inner except prints the error and the
\* loop goes on to its next pass
ReadFails ==
  /\ alive /\ pc = "Idle" /\ nCmds < MaxCmds
  /\ nCmds' = nCmds + 1
  /\ raw' = <<>>
  /\ Respond(None)
  /\ NoOrchestration
  /\ gw_limits' = NoParsed
  /\ proc' = NoProc
  /\ status_data' = NoStatusData /\ queries' = NoQueries
  /\ UNCHANGED << store, instance, alive >>

(* ------------------- direct use of ResourceManager --------------------- *)
G_05 == <<"0",".","5">>

\* arguments of a direct set_resource_limits call; None is an omitted one
DirectCpus == {None, Some(G_05)}
DirectMemories == {None}

\* the gateway handles no line while ResourceManager is used directly
NoLine ==
  /\ raw' = <<>>
  /\ response' = None
  /\ sent' = <<>>
  /\ gw_limits' = NoParsed
  /\ proc' = NoProc
  /\ status_data' = NoStatusData /\ queries' = NoQueries

\* manager.set_resource_limits(cpu, mem)
DirectSet(cpu, mem) ==
  /\ pc = "Idle" /\ nCmds < MaxCmds /\ MayPatch
  /\ nCmds' = nCmds + 1
  /\ UNCHANGED alive
  /\ Begin("direct", "set", cpu, mem)
  /\ NoLine

\* manager.reset_resource_limits()
DirectReset ==
  /\ pc = "Idle" /\ nCmds < MaxCmds
  /\ nCmds' = nCmds + 1
  /\ UNCHANGED alive
  /\ Begin("direct", "reset", None, None)
  /\ NoLine

\* the call returns its dict to the caller
DirectReturn ==
  /\ pc \in {"Done", "Failed"} /\ caller = "direct"
  /\ pc' = "Idle"
  /\ UNCHANGED << store, instance, orchArgs, trace, outcome, result,
                  gwLocals, nCmds, alive >>

(* ------------------ resource_manager.py run standalone ----------------- *)
\* sys.argv[1:] of the runs that start no orchestration
CliArgvs == {<<>>, <<"set">>, <<"set", "0.5">>, <<"status">>, <<"restart">>}

\* main for these command lines: what the process leaves to its parent;
\* insp, rc, out: what docker inspect and docker ps report to "status"
Main(argv, insp, rc, out) ==
  IF Len(argv) < 1
  THEN [returncode |-> 1, stdout |-> "Usage:\n", stderr |-> ""]
  ELSE IF argv[1] = "set"
  THEN [returncode |-> 1,
        stdout |-> " Error: CPU and memory limits required\n", stderr |-> ""]
  ELSE IF argv[1] = "status"
  THEN [returncode |-> 0,
        stdout |-> " Current resource limits:\n"
                   \o "   CPU: " \o CurrentCpu(insp) \o "\n"
                   \o "   Memory: " \o CurrentMemory(insp) \o "\n"
                   \o "Container status: "
                   \o (IF rc = 0 /\ Strip(out) # <<>> /\ IsUp(Strip(out))
                       THEN Str(Strip(out)) ELSE "Error") \o "\n",
        stderr |-> ""]
  ELSE [returncode |-> 1,
        stdout |-> " Unknown command: " \o argv[1] \o "\n", stderr |-> ""]

\* python3 resource_manager.py <argv> run from a shell
Cli(argv, insp, rc, out) ==
  /\ pc = "Idle" /\ nCmds < MaxCmds
  /\ nCmds' = nCmds + 1
  /\ proc' = Main(argv, insp, rc, out)
  /\ pc' = "Idle"
  /\ op' = IF argv = <<"status">> THEN "status" ELSE "usage"
  /\ caller' = "cli"
  /\ outcome' = IF argv = <<"status">>
                THEN [NoOutcome EXCEPT !.inspect = insp.rc, !.ps = rc, !.psOut = out]
                ELSE NoOutcome
  /\ cpu_limit' = None
  /\ memory_limit' = None
  /\ trace' = <<>>
  /\ result' = NoResult
  /\ manifest0' = manifest
  /\ raw' = <<>>
  /\ Respond(None)
  /\ gw_limits' = NoParsed
  /\ status_data' = NoStatusData /\ queries' = NoQueries
  /\ UNCHANGED << store, instance, alive >>

(* ---------------------------- specification ---------------------------- *)
Next ==
  \/ \E rc \in ToolRcs : Stop(rc)
  \/ \E readOk \in BOOLEAN, writeOk \in BOOLEAN : PatchManifest(readOk, writeOk)
  \/ \E rc \in ToolRcs : RemoveStale(rc)
  \/ \E rc \in ToolRcs : Recreate(rc)
  \/ \E rc \in ToolRcs, out \in PsOutputs : Verify(rc, out)
  \/ \E insp \in InspectOutcomes : ReadBack(insp)
  \/ \E rc \in ToolRcs : ResetStop(rc)
  \/ \E writeOk \in BOOLEAN : ResetWrite(writeOk)
  \/ \E rc \in ToolRcs : ResetStart(rc)
  \/ \E cpu \in DirectCpus, mem \in DirectMemories : DirectSet(cpu, mem)
  \/ DirectReset
  \/ DirectReturn
  \/ \E line \in LinesFor["blank"] : GwBlank(line)
  \/ \E line \in LinesFor["log"] : GwLog(line)
  \/ \E line \in LinesFor["start_container"], rc \in ToolRcs : GwStartContainer(line, rc)
  \/ \E line \in LinesFor["stop_container"], rc \in ToolRcs : GwStopContainer(line, rc)
  \/ \E line \in LinesFor["get_container_status"], probe \in ProbeOutcomes : GwGetContainerStatus(line, probe)
  \/ \E line \in LinesFor["call_run_model"], reply \in ApiReplies : GwRunModel(line, reply)
  \/ \E line \in LinesFor["call_execution_status"], reply \in ApiReplies : GwExecutionStatus(line, reply)
  \/ \E line \in LinesFor["call_get_file_number"], reply \in ApiReplies : GwGetFileNumber(line, reply)
  \/ \E line \in LinesFor["call_shutdown"], reply \in ApiReplies : GwShutdown(line, reply)
  \/ \E line \in LinesFor["ping"] : GwPing(line)
  \/ \E line \in LinesFor["set_resource_limits"], spawned \in BOOLEAN : GwSetResourceLimits(line, spawned)
  \/ \E line \in LinesFor["reset_resource_limits"], spawned \in BOOLEAN : GwResetResourceLimits(line, spawned)
  \/ \E line \in LinesFor["handle_text_prompt"] : GwTextPrompt(line)
  \/ \E line \in LinesFor["unknown"] : GwUnknown(line)
  \/ GwSetReturn
  \/ GwResetReturn
  \/ PollFails
  \/ ReadFails
  \/ \E argv \in CliArgvs, insp \in InspectOutcomes, rc \in {0, 1},
          out \in {StatusUp, StatusRestarting, <<>>} :
       /\ rc = 0 <=> out # <<>>
       /\ argv # <<"status">> => (rc = 1 /\ insp.rc = 1)
       /\ Cli(argv, insp, rc, out)

Spec == Init /\ [][Next]_vars

TypeOK ==
  /\ pc \in {"Idle", "Stopping", "PatchingManifest", "RemovingStale",
             "ResettingManifest", "Recreating", "Verifying", "ReadingBack",
             "Done", "Failed"}
  /\ op \in {"none", "set", "reset", "status", "usage"}
  /\ caller \in {"none", "gateway", "direct", "cli"}
  /\ instance \in {"running", "absent"}
  /\ nCmds \in 0..MaxCmds
  /\ alive \in BOOLEAN
  /\ Len(patched) <= MaxPatches
  /\ Len(sent) <= 1

(* ------------------------------ properties ----------------------------- *)
\* the orchestration o of the current operation has produced its result
Ended(o) == op = o /\ pc \in {"Done", "Failed", "Idle"}

\* lines of the manifest that belong to a resource-limits section
SectionLines(content) ==
  {i \in 1..Len(content) :
     content[i].head \in {"deploy:", "resources:", "limits:", "reservations:",
                          "cpus:", "memory:"}}

\* C1: patching the baseline manifest twice with the same spec leaves the
\* manifest that patching it once with that spec leaves.
C1_PatchIdempotent ==
  (Len(patched) = 2 /\ patched[1] = patched[2])
    => manifest = UpdatedContent(OriginalContent, patched[1][1], patched[1][2])

\* C2: the manifest never holds more than one resource-limits section: the
\* only section lines in it are the eight of the section written last, none
\* of an earlier section survives.
C2_AtMostOneSection ==
  /\ Cardinality({i \in 1..Len(manifest) : manifest[i].head = "deploy:"}) <= 1
  /\ Cardinality(SectionLines(manifest)) <= Len(LimitsSection(None, None))

C4_StopFailureShortCircuits ==
  (op = "set" /\ outcome.stop \notin {NOT_RUN, RAISED, 0})
    => /\ pc \in {"Failed", "Idle"}
       /\ trace = <<"Stopping", "Failed">>
       /\ ~result.success /\ result.error = "STOP_CONTAINER_FAILED"
       /\ manifest = manifest0
       /\ outcome.read = NOT_RUN /\ outcome.write = NOT_RUN
       /\ outcome.rm = NOT_RUN /\ outcome.start = NOT_RUN
       /\ outcome.ps = NOT_RUN /\ outcome.inspect = NOT_RUN

\* a set orchestration ended by a stop step that exited non-zero, on a
\* manifest that already carried limits
C4_Witness ==
  /\ op = "set" /\ outcome.stop = 1 /\ pc = "Failed"
  /\ result.error = "STOP_CONTAINER_FAILED"
  /\ patched # <<>>

\* C5: resetLimits short-circuits like applyLimits: a stop step that exits
\* non-zero ends it in Failed(StopFailed) with the manifest not overwritten
\* and the instance not recreated, and the only failure kinds it returns are
\* StopFailed and StartFailed.
C5_ResetShortCircuits ==
  /\ (op = "reset" /\ outcome.stop \notin {NOT_RUN, RAISED, 0})
       => /\ pc \in {"Failed", "Idle"}
          /\ ~result.success /\ result.error = "STOP_CONTAINER_FAILED"
          /\ manifest = manifest0
          /\ outcome.write = NOT_RUN /\ outcome.start = NOT_RUN
  /\ (Ended("reset") /\ pc = "Idle" /\ ~result.success)
       => result.error \in {"STOP_CONTAINER_FAILED", "START_CONTAINER_FAILED"}

\* C6: when an orchestration started by SET_RESOURCE_LIMITS or
\* RESET_RESOURCE_LIMITS fails, the response is RESOURCE_LIMITS_ERROR:
\* followed by the failure message the orchestrator produced.
C6_FailureMessageReachesSource ==
  (caller = "gateway" /\ pc = "Idle" /\ op \in {"set", "reset"} /\ ~result.success)
    => response = Some("RESOURCE_LIMITS_ERROR:" \o result.message)

\* every external step of the set orchestration succeeded
AllStepsSucceeded ==
  /\ outcome.stop = 0 /\ outcome.read = 0 /\ outcome.write = 0
  /\ outcome.start = 0 /\ outcome.ps = 0 /\ outcome.psOut = StatusUp

\* C7: SET_RESOURCE_LIMITS:cpu=0.5,memory=512M with every external step
\* succeeding passes through Stopping, PatchingManifest, Recreating and
\* Verifying in that order, ends in Done(success) and is answered exactly
\* RESOURCE_LIMITS_SET:CPU=0.5,Memory=512M.
C7_SetScenario ==
  (raw = LineSetBoth /\ caller = "gateway" /\ pc = "Idle" /\ AllStepsSucceeded)
    => /\ trace = <<"Stopping", "PatchingManifest", "RemovingStale",
                    "Recreating", "Verifying", "ReadingBack", "Done">>
       /\ result.success
       /\ response = Some("RESOURCE_LIMITS_SET:CPU=0.5,Memory=512M")
       /\ sent = response

C7_Witness ==
  /\ raw = LineSetBoth /\ caller = "gateway" /\ pc = "Idle" /\ AllStepsSucceeded
  /\ response = Some("RESOURCE_LIMITS_SET:CPU=0.5,Memory=512M")

\* the payload of a SET_RESOURCE_LIMITS: line names cpu or memory with a
\* non-empty value
HasRecognizedLimit(line) ==
  LET pairs == Split(AfterFirst(RawCommand(line), ":"), ",")
  IN \E i \in 1..Len(pairs) :
       /\ IndexOf(pairs[i], "=") # 0
       /\ Lower(Strip(BeforeFirst(pairs[i], "="))) \in {KEY_CPU, KEY_MEMORY}
       /\ Strip(AfterFirst(pairs[i], "=")) # <<>>

\* the SET_RESOURCE_LIMITS: lines without a recognized limit
MalformedSetLines ==
  {line \in Lines :
     /\ StartsWith(Upper(RawCommand(line)), PFX_SET_RESOURCE_LIMITS)
     /\ ~HasRecognizedLimit(line)}

\* C8: a SET_RESOURCE_LIMITS: line whose payload has no recognized key with
\* a non-empty value is answered exactly RESOURCE_LIMITS_ERROR:No limits
\* specified; no orchestration starts, nothing is stopped, the manifest is
\* unchanged.
C8_NoLimitsSpecified ==
  (raw \in MalformedSetLines)
    => /\ response = Some("RESOURCE_LIMITS_ERROR:No limits specified")
       /\ sent = response
       /\ pc = "Idle" /\ op = "none" /\ trace = <<>>
       /\ outcome = NoOutcome
       /\ manifest = manifest0

C8_Witness ==
  /\ raw = LineSetEmptyValue
  /\ patched # <<>>
  /\ response = Some("RESOURCE_LIMITS_ERROR:No limits specified")

\* C9: a line that matches no command and does not begin with the log marker
\* is answered exactly UNKNOWN_CMD: followed by the command as received.
C9_UnknownEchoesOriginal ==
  (raw \in LinesFor["unknown"])
    => response = Some("UNKNOWN_CMD:" \o Str(RawCommand(raw)))

\* C10: TEXT_PROMPT:<text> is answered exactly <text> followed by " OK",
\* with <text> as it was sent.
C10_TextPromptEcho ==
  (raw \in LinesFor["handle_text_prompt"])
    => response = Some(Str(AfterFirst(RawCommand(raw), ":")) \o " OK")

\* the lines that begin with the log marker once trimmed and case-normalized
LogLines == {line \in Lines : StartsWith(Upper(Strip(line)), LOG_MARKER)}

\* C11: a line that begins with the [LOG] marker, whatever follows the
\* marker, gets no response, nothing is written back to the command source,
\* and nothing is done: no orchestration and no process is started, the
\* manifest and the instance are left as they were.
C11_LogLinesIgnored ==
  [][(nCmds' = nCmds + 1 /\ raw' \in LogLines)
       => /\ response' = None /\ sent' = <<>>
          /\ pc' = "Idle" /\ op' = "none" /\ trace' = <<>>
          /\ outcome' = NoOutcome /\ proc' = NoProc
          /\ status_data' = NoStatusData /\ queries' = NoQueries
          /\ alive'
          /\ UNCHANGED << manifest, patched, instance >>]_vars

\* the log line whose payload is the PING command was read and not answered
C11_Witness ==
  /\ raw = LineLogPing /\ nCmds > 0
  /\ response = None /\ sent = <<>>
  /\ pc = "Idle" /\ op = "none"

\* GET_CONTAINER_STATUS was the line read and none of the six queries raised
Probed ==
  /\ raw \in LinesFor["get_container_status"] /\ pc = "Idle"
  /\ queries # NoQueries /\ ~queries.raised

\* C12: when the status probe runs while no instance is running, so that
\* every query exits non-zero and the identity/lifecycle query prints
\* nothing, the response is a complete CONTAINER_STATUS value whose status
\* field is "unknown", never the empty string, with started_at and image
\* degraded to the unavailable marker N/A.
C12_StatusUnknownWhenAbsent ==
  (Probed /\ instance = "absent"
     /\ queries.failed = MetricNames /\ queries.info = <<>>)
    => /\ status_data.status = "unknown"
       /\ status_data.started_at = "N/A" /\ status_data.image = "N/A"
       /\ response = Some("CONTAINER_STATUS:" \o JsonDumps(status_data))

\* what each metric query reports when it exits 0, trimmed
MetricValue == [m \in MetricNames |-> Str(Strip(MetricOutput(m)))]

\* C13: whichever of the five metric queries exit non-zero, exactly their
\* fields carry the unavailable marker N/A, the fields of the other queries
\* carry the reported values, and the probe answers one CONTAINER_STATUS
\* response that holds all the fields.
C13_MetricsDegradePerField ==
  Probed
    => /\ \A m \in MetricNames :
            status_data[m] = IF m \in queries.failed THEN "N/A" ELSE MetricValue[m]
       /\ DOMAIN status_data = DOMAIN NoStatusData
       /\ response = Some("CONTAINER_STATUS:" \o JsonDumps(status_data))
       /\ sent = response

\* a probe in which the CPU% and block I/O queries failed and the other
\* three succeeded
C13_Witness ==
  /\ Probed
  /\ queries.failed = {"cpu_percent", "block_io"}
  /\ status_data.cpu_percent = "N/A" /\ status_data.block_io = "N/A"
  /\ status_data.memory_usage = "10MiB / 1GiB"
  /\ status_data.memory_percent = "1.00%"
  /\ status_data.network_io = "1kB / 2kB"
  /\ sent = response /\ response # None

\* the operation the resource_manager.py process was run for succeeded: the
\* orchestration did, or (status) the limits were read and the instance is
\* reported running; a command line that names no operation never does
CliSucceeded ==
  CASE op \in {"set", "reset"} -> result.success
    [] op = "status" -> /\ outcome.inspect = 0
                        /\ outcome.ps = 0
                        /\ Contains(Strip(outcome.psOut), UP_INDICATOR)
    [] OTHER -> FALSE

\* C14: a resource_manager.py process exits with status zero only when the
\* requested operation succeeded; on every failure path of set, reset and
\* status, and when the arguments are missing or unknown, it exits non-zero.
C14_CliExitStatus ==
  (caller \in {"gateway", "cli"} /\ proc.returncode # NOT_RUN)
    => (proc.returncode = 0 <=> CliSucceeded)

\* the lines that are neither skipped as blank nor ignored as log lines
CommandLines == Lines \ (LinesFor["blank"] \cup LogLines)

\* C15: no failure of an action taken for a command ends the run loop or
\* leaves dispatch as a fault. Every command line is answered with one
\* response string and the loop stays ready for the next line; when the
\* action failed (lifecycle tool exiting non-zero or raising, status queries
\* raising, HTTP collaborator unreachable / non-200 or its reply lacking the
\* field read, payload without limits, resource_manager.py not startable or
\* its orchestration failing, the manifest unreadable included) the response
\* is the error tag of the command. A set or reset line that names a limit
\* and is answered at once is one whose resource_manager.py was not started.
C15_NoFaultEscapes ==
  [][/\ (nCmds' = nCmds + 1 /\ raw' \in CommandLines)
          => LET h == Dispatch[raw'].route IN
             /\ alive'
             /\ pc' = "Idle" => (response' # None /\ sent' = response')
             /\ h \in {"start_container", "stop_container"}
                  => \A rc \in ToolRcs \ {0} :
                       (GwStartContainer(raw', rc) \/ GwStopContainer(raw', rc))
                         => response' = Some("CONTAINER_ERROR")
             /\ queries'.raised
                  => response' = Some("CONTAINER_ERROR:" \o ExceptionText)
             /\ h \in {"call_run_model", "call_execution_status",
                        "call_get_file_number", "call_shutdown"}
                  => /\ (GwRunModel(raw', "none") \/ GwExecutionStatus(raw', "none")
                           \/ GwGetFileNumber(raw', "none"))
                          => response' = Some("API_ERROR")
                     /\ (GwExecutionStatus(raw', "partial")
                           \/ GwGetFileNumber(raw', "partial"))
                          => response' = Some("CONNECTION_ERROR")
                     /\ GwShutdown(raw', "none")
                          => response' = Some("SHUTDOWN_ERROR")
             /\ h \in {"set_resource_limits", "reset_resource_limits"}
                  => /\ raw' \in MalformedSetLines
                          => response' = Some("RESOURCE_LIMITS_ERROR:No limits specified")
                     /\ (raw' \notin MalformedSetLines /\ pc' = "Idle")
                          => response' = Some("RESOURCE_LIMITS_ERROR:" \o SpawnErrorText)
     /\ pc # "Idle"
          => ((GwSetReturn \/ GwResetReturn)
               => /\ alive' /\ pc' = "Idle"
                  /\ response' # None /\ sent' = response'
                  /\ ~result.success
                       => response' = Some("RESOURCE_LIMITS_ERROR:" \o proc'.stderr))]_vars

\* a START_CONTAINER whose tool failed was answered CONTAINER_ERROR and the
\* loop is ready to read the next line
C15_Witness ==
  /\ raw = LineStart /\ response = Some("CONTAINER_ERROR") /\ sent = response
  /\ instance = "absent"
  /\ alive /\ pc = "Idle" /\ nCmds > 1 /\ nCmds < MaxCmds

\* C16: a failure to read the command channel, while polling for pending
\* data or while reading the line, ends the run loop, and once the loop has
\* ended no further line is read and processed.
C16_TransportFailureFatal ==
  [][/\ (PollFails \/ ReadFails) => ~alive'
     /\ ~alive => ~(nCmds' = nCmds + 1 /\ raw' # <<>>)]_vars

\* the states of applyLimits in their order
SetSteps ==
  << "Stopping", "PatchingManifest", "RemovingStale", "Recreating",
     "Verifying", "ReadingBack", "Done" >>

\* an applyLimits invocation is in progress or has returned
Applying == op = "set" /\ caller \in {"gateway", "direct"}

\* C17: an applyLimits invocation is strictly linear. The states entered are
\* an initial stretch of stop, patch, remove stale, recreate, verify,
\* readback, Done, each at most once and in that order, ended at most once by
\* Failed; a step has reported only if its state was entered; Done is
\* reached only after stop, patch, recreate and verify all succeeded; and
\* the result exists exactly when a terminal state was reached: success in
\* Done, one failure kind in Failed.
C17_ApplyIsLinear ==
  Applying
    => /\ \E k \in 1..Len(SetSteps) :
            \/ trace = SubSeq(SetSteps, 1, k)
            \/ k < Len(SetSteps) - 1 /\ trace = Append(SubSeq(SetSteps, 1, k), "Failed")
       /\ pc \in {trace[Len(trace)], "Idle"}
       /\ pc = "Idle" => trace[Len(trace)] \in {"Done", "Failed"}
       /\ outcome.read # NOT_RUN => (Len(trace) >= 2 /\ trace[2] = "PatchingManifest")
       /\ outcome.rm # NOT_RUN => (Len(trace) >= 3 /\ trace[3] = "RemovingStale")
       /\ outcome.start # NOT_RUN => (Len(trace) >= 4 /\ trace[4] = "Recreating")
       /\ outcome.ps # NOT_RUN => (Len(trace) >= 5 /\ trace[5] = "Verifying")
       /\ outcome.inspect # NOT_RUN => (Len(trace) >= 6 /\ trace[6] = "ReadingBack")
       /\ trace[Len(trace)] = "Done"
            => /\ outcome.stop = 0 /\ outcome.read = 0 /\ outcome.write = 0
               /\ outcome.start = 0 /\ outcome.ps = 0
               /\ Contains(Strip(outcome.psOut), UP_INDICATOR)
       /\ result.success <=> trace[Len(trace)] = "Done"
       /\ result.error # "" <=> trace[Len(trace)] = "Failed"

\* a second applyLimits invocation has gone through all its steps to Done
C17_Witness ==
  /\ Applying /\ pc = "Done" /\ trace = SetSteps
  /\ result.success /\ Len(patched) = 2

\* C18: in applyLimits, a recreate step that exits non-zero after the
\* manifest was patched ends the orchestration in Failed(StartFailed) with
\* no verification, no readback and no compensating action: the manifest
\* holds the newly patched limits and the instance is left not running.
C18_RecreateFailureNoRollback ==
  (Applying /\ outcome.start \notin {NOT_RUN, RAISED, 0})
    => /\ pc \in {"Failed", "Idle"}
       /\ trace = << "Stopping", "PatchingManifest", "RemovingStale",
                     "Recreating", "Failed" >>
       /\ ~result.success /\ result.error = "START_CONTAINER_FAILED"
       /\ result.message = "Failed to start container: " \o ToolDiagnostic
       /\ outcome.ps = NOT_RUN /\ outcome.inspect = NOT_RUN
       /\ manifest = UpdatedContent(manifest0, cpu_limit, memory_limit)
       /\ manifest # manifest0
       /\ patched # <<>> /\ patched[Len(patched)] = <<cpu_limit, memory_limit>>
       /\ instance = "absent"

\* an applyLimits invocation ended by a recreate step that exited non-zero
C18_Witness ==
  /\ Applying /\ pc = "Failed" /\ outcome.start = 1
  /\ result.error = "START_CONTAINER_FAILED"
  /\ manifest # manifest0 /\ instance = "absent"

\* C19: the verification step of applyLimits succeeds only when the status
\* string the runtime reports contains the running indicator Up. When the
\* status is absent (the query exits non-zero or prints nothing) or does not
\* contain the indicator, the orchestration ends in Failed with a
\* verification failure kind and without readback; a status that was
\* observed is embedded in the failure message.
C19_VerificationNeedsUp ==
  (Applying /\ outcome.ps \notin {NOT_RUN, RAISED})
    => LET status == Strip(outcome.psOut)
           up == outcome.ps = 0 /\ Contains(status, UP_INDICATOR)
       IN /\ up <=> (Len(trace) >= 6 /\ trace[6] = "ReadingBack")
          /\ ~up => /\ pc \in {"Failed", "Idle"}
                    /\ Len(trace) = 6 /\ trace[6] = "Failed"
                    /\ ~result.success
                    /\ outcome.inspect = NOT_RUN
                    /\ IF outcome.ps = 0 /\ status # <<>>
                       THEN /\ result.error = "CONTAINER_NOT_HEALTHY"
                            /\ result.message = "Container status: " \o Str(status)
                       ELSE /\ result.error = "CONTAINER_NOT_RUNNING"
                            /\ result.message = "Container is not running"

\* an applyLimits invocation ended by a verification that observed a status
\* without the running indicator
C19_Witness ==
  /\ Applying /\ pc = "Failed" /\ outcome.ps = 0
  /\ outcome.psOut = StatusRestarting
  /\ result.message = "Container status: Restarting (1) 1 second ago"
  /\ outcome.inspect = NOT_RUN

\* the limits the current applyLimits invocation was asked for: the ones the
\* SET_RESOURCE_LIMITS command named, or the arguments of a direct call
Requested ==
  IF caller = "gateway" THEN gw_limits
  ELSE [cpu |-> cpu_limit, memory |-> memory_limit]

\* C20: the section an applyLimits invocation has written carries the
\* requested limits, with 1.0 for an omitted cpu and 1G for an omitted
\* memory; its cpu reservation is half its cpu limit, and its memory
\* reservation is 512M unless a memory value was given explicitly.
C20_DefaultsAndReservations ==
  (Applying /\ outcome.write = 0)
    => LET cpu == IF Truthy(Requested.cpu) THEN Requested.cpu[1] ELSE <<"1", ".", "0">>
           given == Truthy(Requested.memory)
       IN /\ Len(manifest) >= 17
          /\ manifest[10] = Line(4, "deploy:", "")
          /\ manifest[12] = Line(8, "limits:", "")
          /\ manifest[13] = Line(10, "cpus:", " '" \o Str(cpu) \o "'")
          /\ manifest[14] = Line(10, "memory:",
                                 IF given THEN " " \o Str(Requested.memory[1]) ELSE " 1G")
          /\ manifest[15] = Line(8, "reservations:", "")
          /\ manifest[16] = Line(10, "cpus:", " '" \o FloatRepr(FloatMilli(cpu) \div 2) \o "'")
          /\ manifest[17] = Line(10, "memory:",
                                 IF given THEN " " \o Str(Requested.memory[1]) ELSE " 512M")

\* C21: every RESOURCE_LIMITS_SET response names, for CPU and for Memory,
\* the limit that was passed to the orchestrator and written to the manifest:
\* the value the command gave, or the default 1.0 / 1G for a key it omitted.
C21_SetResponseConcrete ==
  (caller = "gateway" /\ op = "set" /\ pc = "Idle" /\ proc.returncode = 0)
    => /\ outcome.write = 0
       /\ Truthy(cpu_limit) /\ Truthy(memory_limit)
       /\ cpu_limit = Some(OrDefault(gw_limits.cpu, DEFAULT_CPU))
       /\ memory_limit = Some(OrDefault(gw_limits.memory, DEFAULT_MEMORY))
       /\ Len(manifest) >= 14
       /\ manifest[13] = Line(10, "cpus:", " '" \o Str(cpu_limit[1]) \o "'")
       /\ manifest[14] = Line(10, "memory:", " " \o Str(memory_limit[1]))
       /\ response = Some("RESOURCE_LIMITS_SET:CPU=" \o Str(cpu_limit[1])
                            \o ",Memory=" \o Str(memory_limit[1]))

\* the routes of the two commands that start an orchestration
LimitRoutes == {"set_resource_limits", "reset_resource_limits"}

\* C22: the manifest content changes only while a SET_RESOURCE_LIMITS or
\* RESET_RESOURCE_LIMITS command is being processed, and only in the patch
\* step or the reset step of the orchestrator. The step that reads a line
\* (for every other command it is also the step that handles and answers
\* it) and the step that answers leave the manifest as it is.
C22_ManifestFrame ==
  [][/\ manifest' # manifest
          => /\ op \in {"set", "reset"}
             /\ caller = "gateway" => Dispatch[raw].route \in LimitRoutes
             /\ \/ /\ pc = "PatchingManifest" /\ op = "set"
                   /\ manifest' = UpdatedContent(manifest, cpu_limit, memory_limit)
                \/ /\ pc = "ResettingManifest" /\ op = "reset"
                   /\ manifest' = OriginalContent
     /\ nCmds' = nCmds + 1 => manifest' = manifest
     /\ (pc # "Idle" /\ pc' = "Idle") => manifest' = manifest]_vars

\* a patched manifest has come unchanged through a later command that is
\* neither SET_RESOURCE_LIMITS nor RESET_RESOURCE_LIMITS
C22_Witness ==
  /\ Len(patched) = 1 /\ manifest # OriginalContent
  /\ pc = "Idle" /\ raw \in CommandLines
  /\ Dispatch[raw].route \notin LimitRoutes
  /\ response # None

\* every command line is handled by exactly one branch of process_obc_command
OneBranchPerLine ==
  \A line \in CommandLines : Cardinality({h \in Routes : line \in LinesFor[h]}) = 1

\* C23: commands are processed one at a time, in the order read. A line is
\* read only when no processing is in progress; while a command is being
\* processed the line stays the current one, nothing is read and nothing has
\* been written for it yet; the step that ends the processing of a command
\* line writes its one response, and nothing more is written until the next
\* line has been read. Each command line belongs to exactly one branch.
C23_OneAtATime ==
  [][/\ nCmds' = nCmds + 1 => pc = "Idle"
     /\ (pc # "Idle" /\ caller = "gateway")
          => /\ raw' = raw /\ nCmds' = nCmds
             /\ raw \in CommandLines
             /\ response = None /\ sent = <<>>
             /\ pc' = "Idle" => (Len(sent') = 1 /\ sent' = response')
             /\ pc' # "Idle" => (response' = None /\ sent' = <<>>)
     /\ (nCmds' = nCmds + 1 /\ raw' \in CommandLines)
          => /\ OneBranchPerLine
             /\ pc' = "Idle" => (Len(sent') = 1 /\ sent' = response')
             /\ pc' # "Idle"
                  => /\ response' = None /\ sent' = <<>>
                     /\ caller' = "gateway"
                     /\ Dispatch[raw'].route \in LimitRoutes
     /\ (pc = "Idle" /\ nCmds' = nCmds) => (sent' = sent \/ sent' = <<>>)]_vars

\* the second line read was a SET_RESOURCE_LIMITS command; its orchestration
\* ran to its end and one response was written for it
C23_Witness ==
  /\ nCmds = 2 /\ caller = "gateway" /\ op = "set" /\ pc = "Idle"
  /\ Len(trace) >= 2
  /\ raw \in LinesFor["set_resource_limits"]
  /\ Len(sent) = 1 /\ sent = response

\* the failure kinds a set orchestration can end in
SetFailureKinds ==
  {"EXCEPTION", "STOP_CONTAINER_FAILED", "FILE_UPDATE_FAILED",
   "START_CONTAINER_FAILED", "VERIFICATION_FAILED", "CONTAINER_NOT_RUNNING",
   "CONTAINER_NOT_HEALTHY"}

\* C24: a SET_RESOURCE_LIMITS command that reached the orchestrator is
\* answered with a RESOURCE_LIMITS_SET response exactly when its
\* orchestration ended in Done with success, and with a RESOURCE_LIMITS_ERROR
\* response when it ended in Failed, whatever the kind; the exit status of
\* the resource_manager.py process is 0 exactly on success.
C24_SetAnswerMatchesOutcome ==
  (caller = "gateway" /\ op = "set" /\ pc = "Idle")
    => /\ Len(trace) >= 2
       /\ trace[Len(trace)] \in {"Done", "Failed"}
       /\ result.success <=> trace[Len(trace)] = "Done"
       /\ proc.returncode = 0 <=> result.success
       /\ result.success
            => response = Some("RESOURCE_LIMITS_SET:CPU=" \o Fmt(gw_limits.cpu)
                                 \o ",Memory=" \o Fmt(gw_limits.memory))
       /\ ~result.success
            => /\ result.error \in SetFailureKinds
               /\ response = Some("RESOURCE_LIMITS_ERROR:" \o proc.stderr)
       /\ sent = response

\* a set orchestration started by the gateway failed in verification and
\* the command was answered with a RESOURCE_LIMITS_ERROR response
C24_Witness ==
  /\ caller = "gateway" /\ op = "set" /\ pc = "Idle"
  /\ trace[Len(trace)] = "Failed"
  /\ result.error = "CONTAINER_NOT_HEALTHY"
  /\ proc.returncode = 1
  /\ response = Some("RESOURCE_LIMITS_ERROR:")

\* the patch step of the current applyLimits invocation failed while
\* computing the new content: the manifest could not be read, or it was read
\* and the cpu value is not a number
PatchComputeFailed ==
  /\ Applying /\ outcome.stop = 0
  /\ \/ outcome.read = RAISED
     \/ outcome.read = 0 /\ Truthy(cpu_limit) /\ ~IsFloat(cpu_limit[1])

\* C25: when the patch step of applyLimits fails while computing the new
\* manifest content, the orchestration ends in the manifest-update failure,
\* the manifest content is what it was when the invocation started, no
\* write, stale-instance removal, recreate, verification or readback is
\* attempted, and the instance stopped in the first step is left stopped.
C25_PatchFailureLeavesManifest ==
  PatchComputeFailed
    => /\ trace = <<"Stopping", "PatchingManifest", "Failed">>
       /\ ~result.success
       /\ result.error = "FILE_UPDATE_FAILED"
       /\ manifest = manifest0
       /\ outcome.write = NOT_RUN /\ outcome.rm = NOT_RUN
       /\ outcome.start = NOT_RUN /\ outcome.ps = NOT_RUN
       /\ outcome.inspect = NOT_RUN
       /\ instance = "absent"

\* a SET_RESOURCE_LIMITS command with a cpu value that is not a number has
\* failed in the patch step of a manifest that already carried limits
C25_Witness ==
  /\ PatchComputeFailed /\ caller = "gateway" /\ pc = "Idle"
  /\ raw = LineSetBadCpu
  /\ outcome.read = 0
  /\ Len(patched) = 1 /\ manifest = manifest0 /\ manifest # OriginalContent
  /\ instance = "absent"

====
